---- MODULE Spec2Model ----
(***************************************************************************)
(* Model of src/src/assets/generate_solarpunk_bg.py: a sequential script   *)
(* that draws a layered scene with Cairo, blurs the skyline layer with an  *)
(* external `convert` process and writes the result as a PNG.              *)
(*                                                                         *)
(* Units.  Alpha values are integers in 1/10000 (AlphaOne = 1.0).  The     *)
(* skyline cursor x is in 1/100 pixel, building widths and heights are     *)
(* whole pixels, spacing factors are in 1/100.  Line widths are in 1/10.   *)
(*                                                                         *)
(* Random source.  Python's Mersenne Twister is outside the repository;    *)
(* what the script relies on is that, once seeded, every draw is a         *)
(* function of the generator state.  The state is modelled as a 16-bit     *)
(* linear congruential generator whose high byte is the output.            *)
(*                                                                         *)
(* Pixels.  A canvas keeps the alpha class of two representative pixels:   *)
(* `miss`, touched only by whole-canvas paints, and `hit`, touched by      *)
(* every operation.  Every other pixel lies between the two.               *)
(***************************************************************************)
EXTENDS Integers, Sequences, FiniteSets, TLC

\* ------------------------------------------------------------------ bounds
\* Seeds explored: SEED .. SEED + MaxSeedOffset.
MaxSeedOffset == 2
\* Canvas widths explored by the skyline-generator specification: the empty
\* canvas and one MaxSkyW pixels wide.
MaxSkyW == 6
\* Ferns whose height ranges over the whole interval in the fern specification:
\* the first MaxFernAny of the stage.
MaxFernAny == 1

\* --------------------------------------------------------- program constants
SEED == 42
DEFAULT_W == 1800
DEFAULT_H == 1200
AlphaOne == 10000
GLOW_STEPS == 8
RAYS == 24
FERNS == 60
LEAVES == 35
POLLEN == 120
GRAIN == 3000
BLUR_ALPHA == 8500

\* ------------------------------------------------------------ random source
RngModulus == 65536

RngNext(s) == (25173 * s + 13849) % RngModulus

\* random.seed(n)
RandomSeed(n) == n % RngModulus

\* The generator state after n further draws.
RECURSIVE RngAt(_, _)
RngAt(s, n) == IF n = 0 THEN s ELSE RngAt(RngNext(s), n - 1)

\* The output of the draw that left the generator in state s: 0 .. 255,
\* standing for random.random() = RngOut / 256.
RngOut(s) == s \div 256

\* random.uniform(lo, hi), lo and hi in the caller's integer unit.
Uniform(s, lo, hi) == lo + (RngOut(s) * (hi - lo)) \div 255

\* random.random() > p / 100
RandomGT(s, p) == RngOut(s) * 100 > p * 256

\* random.choice(seq)
Choice(s, seq) == seq[(RngOut(s) * Len(seq)) \div 256 + 1]

\* ------------------------------------------------------------------ canvas
\* Alpha class of a pixel or of a source alpha.
AlphaClass(a) ==
  IF a <= 0 THEN "transparent" ELSE IF a >= AlphaOne THEN "opaque" ELSE "partial"

\* Mutant: the compositing operator set to SOURCE.
OverSource(src, dst) == src

\* Source-over: out = src + dst * (1 - src), on alpha classes.
Over(src, dst) ==
  IF src = "opaque" \/ dst = "opaque" THEN "opaque"
  ELSE IF src = "transparent" THEN dst
  ELSE "partial"

\* cairo.ImageSurface(FORMAT_ARGB32, W, H): transparent, nothing drawn.
NewSurface == [layers |-> <<>>, nops |-> 0, hit |-> "transparent", miss |-> "transparent"]

AddLayer(layers, tag) ==
  IF Len(layers) > 0 /\ layers[Len(layers)] = tag THEN layers ELSE Append(layers, tag)

\* ctx.paint() with a gradient source whose stop alphas range over lo .. hi:
\* every pixel is covered, the least covered one with alpha lo.
Paint(s, tag, lo, hi) ==
  [layers |-> AddLayer(s.layers, tag), nops |-> s.nops + 1,
   hit |-> Over(AlphaClass(hi), s.hit), miss |-> Over(AlphaClass(lo), s.miss)]

\* ctx.fill() / ctx.stroke() of a path with a source of alpha a: only the
\* pixels under the path are covered.
FillOrStroke(s, tag, a) ==
  [layers |-> AddLayer(s.layers, tag), nops |-> s.nops + 1,
   hit |-> Over(AlphaClass(a), s.hit), miss |-> s.miss]

\* Alpha class a scaled by a global alpha g.
ScaleClass(a, g) ==
  IF a = "transparent" \/ g <= 0 THEN "transparent"
  ELSE IF a = "opaque" /\ g >= AlphaOne THEN "opaque" ELSE "partial"

\* ctx.set_source_surface(src); ctx.paint_with_alpha(g)
PaintWithAlpha(s, tag, src, g) ==
  [layers |-> AddLayer(s.layers, tag), nops |-> s.nops + 1,
   hit |-> Over(ScaleClass(src.hit, g), s.hit),
   miss |-> Over(ScaleClass(src.miss, g), s.miss)]

\* ------------------------------------------------------- drawing context
\* cairo.Context(surface): identity transform, default line width 2.0 and
\* butt caps, empty saved-state stack.
NewContext == [xform |-> "identity", lw |-> 20, cap |-> "butt", stack |-> <<>>]

GState(c) == [xform |-> c.xform, lw |-> c.lw, cap |-> c.cap]

\* ctx.save()
Save(c) == [c EXCEPT !.stack = Append(@, GState(c))]

\* Mutant: the restore() left out.
RestoreForgotten(c) == c

\* ctx.restore()
Restore(c) ==
  LET g == c.stack[Len(c.stack)]
  IN  [xform |-> g.xform, lw |-> g.lw, cap |-> g.cap,
       stack |-> SubSeq(c.stack, 1, Len(c.stack) - 1)]

\* ctx.translate(..) / ctx.rotate(..)
Transform(c) == [c EXCEPT !.xform = "user"]

SetLineWidth(c, w) == [c EXCEPT !.lw = w]

SetLineCap(c, v) == [c EXCEPT !.cap = v]

\* ------------------------------------------------------------------- files
CITY_LAYER == "_city_layer.png"
BASE_LAYER == "_base_layer.png"
CITY_BLURRED == "_city_blurred.png"
FINAL_PNG == "solarpunk_bg.png"
Paths == {CITY_LAYER, BASE_LAYER, CITY_BLURRED, FINAL_PNG}
NoFile == [layers |-> <<"absent">>, nops |-> 0, hit |-> "transparent", miss |-> "transparent"]

\* `convert in -blur 0x8 out`: the blurred image.  A blurred pixel is as
\* transparent as its neighbourhood allows: an untouched region stays
\* transparent, a touched one keeps some coverage.
Blur(img) ==
  [layers |-> <<"blur">> \o img.layers, nops |-> img.nops,
   hit |-> ScaleClass(img.hit, AlphaOne), miss |-> ScaleClass(img.miss, AlphaOne)]

\* Mutant: the haze overlay moved ahead of the composite.
PipelineHazeFirst ==
  << "sky", "sun_glow", "sun_rays", "sun_core",
     "city_surface", "gen_buildings", "skyline", "save_city_layer", "save_base_layer",
     "blur", "load_blurred", "haze", "composite",
     "hill_1", "hill_2", "hill_3", "hill_4",
     "vine_1", "vine_2", "vine_3", "vine_4",
     "ferns", "ground", "panels", "ornaments", "leaves", "pollen",
     "frame", "grain", "export" >>

\* ---------------------------------------------------------------- pipeline
\* The script's statements in program order, grouped into stages.
Pipeline ==
  << "sky", "sun_glow", "sun_rays", "sun_core",
     "city_surface", "gen_buildings", "skyline", "save_city_layer", "save_base_layer",
     "blur", "load_blurred", "composite", "haze",
     "hill_1", "hill_2", "hill_3", "hill_4",
     "vine_1", "vine_2", "vine_3", "vine_4",
     "ferns", "ground", "panels", "ornaments", "leaves", "pollen",
     "frame", "grain", "export" >>

Stages == {Pipeline[n] : n \in 1..Len(Pipeline)}

StageIndex(s) == CHOOSE n \in 1..Len(Pipeline) : Pipeline[n] = s

\* The statement that follows stage s in the script.
After(s) ==
  IF StageIndex(s) = Len(Pipeline) THEN "done" ELSE Pipeline[StageIndex(s) + 1]

VARIABLES
  pc,            \* the stage being executed, "done" or "aborted"
  failedAt,      \* the stage whose statement raised, or "none"
  log,           \* the stages completed so far, in order
  seed,          \* the argument of random.seed
  rng,           \* the generator state
  ndraws,        \* the number of draws made so far
  W, H,          \* canvas dimensions
  surface,       \* the main canvas
  ctx,           \* the main canvas's drawing context
  city_surface,  \* the intermediate skyline canvas
  buildings,     \* the generated Building sequence
  x,             \* the horizontal cursor (skyline loop, then hills loop)
  files,         \* the PNG files on disk
  blurred_city,  \* the surface loaded from the blurred PNG
  i, j,          \* loop indices of the current stage
  blk,           \* TRUE between a save() and its restore()
  stale,         \* TRUE when an earlier run left its files on disk
  fern,          \* the fern being drawn: its height and its last frond
  alphas         \* the alpha values passed by the last statement group

vars == << pc, failedAt, log, seed, rng, ndraws, W, H, surface, ctx, city_surface,
           buildings, x, files, blurred_city, i, j, blk, stale, fern, alphas >>

env == << seed, W, H, stale, fern >>

\* What an earlier run of the script left at path p.
StaleFile(p) == [layers |-> <<"stale", p>>, nops |-> 0, hit |-> "opaque", miss |-> "opaque"]

\* The file system before the run.
InitialFiles(st) == [p \in Paths |-> IF st THEN StaleFile(p) ELSE NoFile]

NoFern == [h |-> 0, n |-> 0, side |-> 0, len |-> 0]

NoSurface == [layers |-> <<"none">>, nops |-> 0, hit |-> "transparent", miss |-> "transparent"]

InitWith(s, w, h, st) ==
  /\ pc = "sky"
  /\ failedAt = "none"
  /\ log = <<>>
  /\ seed = s
  /\ rng = RandomSeed(s)
  /\ ndraws = 0
  /\ W = w
  /\ H = h
  /\ surface = NewSurface
  /\ ctx = NewContext
  /\ city_surface = NoSurface
  /\ buildings = <<>>
  /\ x = 0
  /\ files = InitialFiles(st)
  /\ stale = st
  /\ fern = NoFern
  /\ blurred_city = NoSurface
  /\ i = 0
  /\ j = 0
  /\ blk = FALSE
  /\ alphas = {}

Init ==
  \E s \in SEED .. SEED + MaxSeedOffset, st \in BOOLEAN :
    InitWith(s, DEFAULT_W, DEFAULT_H, st)

\* Stage s is complete: control passes to the next statement.
Advance(s) ==
  /\ pc' = After(s)
  /\ log' = Append(log, s)
  /\ i' = 0
  /\ j' = 0

\* n draws are consumed.
Consume(n) ==
  /\ rng' = RngAt(rng, n)
  /\ ndraws' = ndraws + n

\* The kth draw of the current statement group.
Draw(k) == RngAt(rng, k)

\* Mutant: the blocks wrapped in try/finally, restoring on the way out.
AbortRestoring(s) ==
  /\ pc' = "aborted"
  /\ failedAt' = s
  /\ ctx' = IF Len(ctx.stack) > 0
              THEN [xform |-> ctx.stack[Len(ctx.stack)].xform,
                    lw |-> ctx.stack[Len(ctx.stack)].lw,
                    cap |-> ctx.stack[Len(ctx.stack)].cap,
                    stack |-> SubSeq(ctx.stack, 1, Len(ctx.stack) - 1)]
              ELSE ctx
  /\ UNCHANGED << log, seed, rng, ndraws, W, H, surface, city_surface, buildings,
                  x, files, blurred_city, i, j, blk, stale, fern, alphas >>

\* ------------------------------------------------------------ failure
\* A statement of the current stage raises: the script has no handler, so the
\* interpreter unwinds and the process exits.
Abort(s) ==
  /\ pc' = "aborted"
  /\ failedAt' = s
  /\ UNCHANGED << log, seed, rng, ndraws, W, H, surface, ctx, city_surface, buildings,
                  x, files, blurred_city, i, j, blk, stale, fern, alphas >>

\* ------------------------------------------------------------- 1. sky
SKY_STOPS == << 10000, 10000, 10000, 10000, 10000, 10000 >>

SeqMin(s) == CHOOSE a \in {s[n] : n \in 1..Len(s)} : \A b \in {s[n] : n \in 1..Len(s)} : a <= b
SeqMax(s) == CHOOSE a \in {s[n] : n \in 1..Len(s)} : \A b \in {s[n] : n \in 1..Len(s)} : a >= b
SeqSet(s) == {s[n] : n \in 1..Len(s)}

Sky ==
  /\ pc = "sky"
  /\ surface' = Paint(surface, "sky", SeqMin(SKY_STOPS), SeqMax(SKY_STOPS))
  /\ alphas' = SeqSet(SKY_STOPS)
  /\ Advance("sky")
  /\ UNCHANGED << failedAt, seed, rng, ndraws, W, H, ctx, city_surface, buildings, x,
                  files, blurred_city, blk, stale, fern >>

\* ------------------------------------------------------------- 2. sun
\* alpha = 0.03 + i * 0.008; stops alpha * 2.5, alpha * 1.5, 0
GlowAlpha(n) == 300 + n * 80
\* Mutant: the stop multipliers 25 and 15 for 2.5 and 1.5.
GlowStopsTenfold(n) == << (300 + n * 80) * 25, (300 + n * 80) * 15, 0 >>

GlowStops(n) == << (GlowAlpha(n) * 25) \div 10, (GlowAlpha(n) * 15) \div 10, 0 >>

SunGlow ==
  /\ pc = "sun_glow"
  /\ i < GLOW_STEPS
  /\ surface' = Paint(surface, "sun_glow", SeqMin(GlowStops(i)), SeqMax(GlowStops(i)))
  /\ alphas' = SeqSet(GlowStops(i))
  /\ IF i + 1 = GLOW_STEPS
       THEN Advance("sun_glow")
       ELSE /\ i' = i + 1
            /\ UNCHANGED << pc, log, j >>
  /\ UNCHANGED << failedAt, seed, rng, ndraws, W, H, ctx, city_surface, buildings, x,
                  files, blurred_city, blk, stale, fern >>

\* length = 350 + random.uniform(-80, 120); save(); translate(); rotate()
SunRayEnter ==
  /\ pc = "sun_rays"
  /\ ~blk
  /\ i < RAYS
  /\ Consume(1)
  /\ ctx' = Transform(Transform(Save(ctx)))
  /\ blk' = TRUE
  /\ alphas' = {}
  /\ UNCHANGED << pc, failedAt, log, seed, W, H, surface, city_surface, buildings, x,
                  files, blurred_city, i, j, stale, fern >>

RayAlpha(n) == IF n % 3 = 0 THEN 1400 ELSE 800
RayWidth(n) == IF n % 3 = 0 THEN 15 ELSE 6

\* move_to .. stroke(); restore()
SunRayLeave ==
  /\ pc = "sun_rays"
  /\ blk
  /\ surface' = FillOrStroke(surface, "sun_rays", RayAlpha(i))
  /\ ctx' = Restore(SetLineWidth(ctx, RayWidth(i)))
  /\ blk' = FALSE
  /\ alphas' = {RayAlpha(i)}
  /\ IF i + 1 = RAYS
       THEN Advance("sun_rays")
       ELSE /\ i' = i + 1
            /\ UNCHANGED << pc, log, j >>
  /\ UNCHANGED << failedAt, seed, rng, ndraws, W, H, city_surface, buildings, x,
                  files, blurred_city, stale, fern >>

CORE_STOPS == << 9000, 7000, 5000, 3000, 1500 >>
CORE_RIM_ALPHA == 4000

SunCore ==
  /\ pc = "sun_core"
  /\ surface' = FillOrStroke(FillOrStroke(surface, "sun_core", SeqMax(CORE_STOPS)),
                             "sun_core", CORE_RIM_ALPHA)
  /\ ctx' = SetLineWidth(ctx, 12)
  /\ alphas' = SeqSet(CORE_STOPS) \cup {CORE_RIM_ALPHA}
  /\ Advance("sun_core")
  /\ UNCHANGED << failedAt, seed, rng, ndraws, W, H, city_surface, buildings, x,
                  files, blurred_city, blk, stale, fern >>

\* ------------------------------------------------------- 3. skyline
\* city_surface = cairo.ImageSurface(..); cctx = cairo.Context(city_surface);
\* horizon_y = H * 0.50; buildings = []; x = -20
CitySurface ==
  /\ pc = "city_surface"
  /\ city_surface' = NewSurface
  /\ buildings' = <<>>
  /\ x' = -2000
  /\ alphas' = {}
  /\ Advance("city_surface")
  /\ UNCHANGED << failedAt, seed, rng, ndraws, W, H, surface, ctx, files, blurred_city,
                  blk, stale, fern >>

horizon_y == H \div 2

BTYPES == << "tower", "tower", "tower", "dome", "spire", "block", "antenna", "megablock" >>

\* Mutant: the megablock given the width range of the other variants.
WidthRangeShared(t) == << 18, 55 >>

\* bw = random.uniform(18, 55) if btype != 'megablock' else random.uniform(60, 110)
WidthRange(t) == IF t = "megablock" THEN << 60, 110 >> ELSE << 18, 55 >>

\* the if / elif chain choosing bh
HeightRange(t) ==
  CASE t = "tower" -> << 80, 240 >>
    [] t = "dome" -> << 50, 120 >>
    [] t = "spire" -> << 150, 320 >>
    [] t = "antenna" -> << 180, 350 >>
    [] t = "megablock" -> << 60, 160 >>
    [] OTHER -> << 40, 100 >>

\* random.uniform(0.5, 1.1), in 1/100
SPACING == << 50, 110 >>

\* Mutant: the right margin left out of the loop bound.
GenContinuesNoMargin(cx, w) == cx < w * 100

\* while x < W + 20
GenContinues(cx, w) == cx < (w + 20) * 100

\* Mutant: the cursor moved back by the spacing.
GenBuildingStepBack(bs, cx, t, bw, bh, f) ==
  [buildings |-> Append(bs, [x |-> cx, w |-> bw, h |-> bh, t |-> t]),
   x |-> cx - bw * f]

\* buildings.append((x, bw, bh, btype)); x += bw * factor
GenBuildingStep(bs, cx, t, bw, bh, f) ==
  [buildings |-> Append(bs, [x |-> cx, w |-> bw, h |-> bh, t |-> t]),
   x |-> cx + bw * f]

\* Mutant: the height drawn before the width.
GenBuildingHeightFirst ==
  /\ pc = "gen_buildings"
  /\ GenContinues(x, W)
  /\ LET t == Choice(Draw(1), BTYPES)
         bh == Uniform(Draw(2), HeightRange(t)[1], HeightRange(t)[2])
         bw == Uniform(Draw(3), WidthRange(t)[1], WidthRange(t)[2])
         f == Uniform(Draw(4), SPACING[1], SPACING[2])
         r == GenBuildingStep(buildings, x, t, bw, bh, f)
     IN  /\ buildings' = r.buildings
         /\ x' = r.x
  /\ Consume(4)
  /\ alphas' = {}
  /\ UNCHANGED << pc, failedAt, log, seed, W, H, surface, ctx, city_surface, files,
                  blurred_city, i, j, blk, stale, fern >>

\* One iteration of the generation loop, its four draws taken from the
\* seeded generator.
GenBuilding ==
  /\ pc = "gen_buildings"
  /\ GenContinues(x, W)
  /\ LET t == Choice(Draw(1), BTYPES)
         bw == Uniform(Draw(2), WidthRange(t)[1], WidthRange(t)[2])
         bh == Uniform(Draw(3), HeightRange(t)[1], HeightRange(t)[2])
         f == Uniform(Draw(4), SPACING[1], SPACING[2])
         r == GenBuildingStep(buildings, x, t, bw, bh, f)
     IN  /\ buildings' = r.buildings
         /\ x' = r.x
  /\ Consume(4)
  /\ alphas' = {}
  /\ UNCHANGED << pc, failedAt, log, seed, W, H, surface, ctx, city_surface, files,
                  blurred_city, i, j, blk, stale, fern >>

GenBuildingsDone ==
  /\ pc = "gen_buildings"
  /\ ~GenContinues(x, W)
  /\ alphas' = {}
  /\ Advance("gen_buildings")
  /\ UNCHANGED << failedAt, seed, rng, ndraws, W, H, surface, ctx, city_surface,
                  buildings, x, files, blurred_city, blk, stale, fern >>

\* int(v) for v in 1/100: truncation toward zero
IntTrunc(v) == IF v >= 0 THEN v \div 100 ELSE -((-v) \div 100)

\* len(range(a, b, s))
RangeCount(a, b, s) == IF b > a THEN (b - a + s - 1) \div s ELSE 0

\* Mutant: the skyline drawn on the main context.
CityTargetCtx == "ctx"

\* draw_city_silhouette(cctx, alpha_mult=1.0): the context drawn on and the
\* alpha multiplier in 1/100
CITY_TARGET == "cctx"
ALPHA_MULT == 100

\* a = 0.22 * alpha_mult
CityAlpha(m) == (2200 * m) \div 100

\* c * alpha_mult for a literal c in 1/10000
Lit(c, m) == (c * m) \div 100

\* The window grid of a tower or megablock: rows and columns of the two
\* nested range() loops.
WindowRows(b) ==
  IF b.t = "tower" THEN RangeCount(horizon_y - b.h + 15, horizon_y - 10, 14)
  ELSE IF b.t = "megablock" THEN RangeCount(horizon_y - b.h + 10, horizon_y - 5, 12)
  ELSE 0

WindowCols(b) ==
  IF b.t = "tower"
    THEN RangeCount(IntTrunc(b.x + 400), IntTrunc(b.x + 100 * b.w - 400), 8)
  ELSE IF b.t = "megablock"
    THEN RangeCount(IntTrunc(b.x + 500), IntTrunc(b.x + 100 * b.w - 500), 10)
  ELSE 0

WindowCells(b) == WindowRows(b) * WindowCols(b)

\* random.random() > 0.4 (tower) / > 0.35 (megablock)
WindowLit(s, b) == RandomGT(s, IF b.t = "tower" THEN 40 ELSE 35)

\* 0.06 * alpha_mult (tower) / 0.04 * alpha_mult (megablock)
WindowAlpha(b, m) == Lit(IF b.t = "tower" THEN 600 ELSE 400, m)

\* The draws a building's shape consumes before its windows.
ShapeDraws(b) == IF b.t = "tower" THEN 2 ELSE IF b.t = "antenna" THEN 1 ELSE 0

Repeat(a, n) == [k \in 1 .. n |-> a]

\* The alphas of the fills and strokes of a building's shape, in order; roof
\* is the tower's random.random() > 0.5.
ShapeAlphas(b, m, roof) ==
  LET a == CityAlpha(m) IN
  CASE b.t = "tower" -> << a >> \o (IF roof THEN << (a * 9) \div 10 >> ELSE <<>>)
    [] b.t = "dome" -> << a >> \o Repeat(Lit(800, m), 3)
    [] b.t = "spire" -> << a, Lit(1200, m) >>
    [] b.t = "antenna" ->
         << (a * 8) \div 10 >>
         \o Repeat(Lit(1200, m), RangeCount(horizon_y - b.h + 30, horizon_y - 10, 35))
         \o << Lit(1500, m), Lit(1500, m) >>
    [] b.t = "megablock" -> << (a * 9) \div 10 >> \o Repeat(Lit(600, m), 3)
    [] OTHER -> << (a * 85) \div 100 >>

\* The fills and strokes of alphas `as`, in order.  Source-over is monotone in
\* the source alpha, so the pixel under all of them ends as covered as under
\* the strongest one alone; each of them counts as an operation.
DrawAll(s, tag, as) ==
  IF Len(as) = 0 THEN s
  ELSE [FillOrStroke(s, tag, SeqMax(as)) EXCEPT !.nops = s.nops + Len(as)]

\* The two canvases after the fills and strokes `as` on the context tgt.
DrawOn(tgt, tag, as) ==
  [surface |-> IF tgt = "ctx" THEN DrawAll(surface, tag, as) ELSE surface,
   city_surface |-> IF tgt = "cctx" THEN DrawAll(city_surface, tag, as) ELSE city_surface]

\* for bx, bw, bh, btype in buildings: the shape of building i + 1
SkylineShape ==
  /\ pc = "skyline"
  /\ i < Len(buildings)
  /\ j = 0
  /\ LET b == buildings[i + 1]
         as == ShapeAlphas(b, ALPHA_MULT, RandomGT(Draw(2), 50))
         d == DrawOn(CITY_TARGET, "skyline", as)
     IN  /\ surface' = d.surface
         /\ city_surface' = d.city_surface
         /\ alphas' = SeqSet(as)
         /\ Consume(ShapeDraws(b))
         /\ IF WindowCells(b) = 0
              THEN i' = i + 1 /\ j' = 0
              ELSE i' = i /\ j' = 1
  /\ UNCHANGED << pc, failedAt, log, seed, W, H, ctx, buildings, x, files, blurred_city,
                  blk, stale, fern >>

\* One cell of the window grid of building i + 1.
SkylineWindow ==
  /\ pc = "skyline"
  /\ i < Len(buildings)
  /\ j > 0
  /\ LET b == buildings[i + 1]
         lit == WindowLit(Draw(1), b)
         as == IF lit THEN << WindowAlpha(b, ALPHA_MULT) >> ELSE <<>>
         d == DrawOn(CITY_TARGET, "skyline", as)
     IN  /\ surface' = d.surface
         /\ city_surface' = d.city_surface
         /\ alphas' = SeqSet(as)
         /\ Consume(IF lit THEN 2 ELSE 1)
         /\ IF j = WindowCells(b)
              THEN i' = i + 1 /\ j' = 0
              ELSE i' = i /\ j' = j + 1
  /\ UNCHANGED << pc, failedAt, log, seed, W, H, ctx, buildings, x, files, blurred_city,
                  blk, stale, fern >>

SkylineDone ==
  /\ pc = "skyline"
  /\ i >= Len(buildings)
  /\ alphas' = {}
  /\ Advance("skyline")
  /\ UNCHANGED << failedAt, seed, rng, ndraws, W, H, surface, ctx, city_surface,
                  buildings, x, files, blurred_city, blk, stale, fern >>

\* ------------------------------------------------ blur and composite
\* city_surface.write_to_png('.../_city_layer.png')
SaveCityLayer ==
  /\ pc = "save_city_layer"
  /\ files' = [files EXCEPT ![CITY_LAYER] = city_surface]
  /\ alphas' = {}
  /\ Advance("save_city_layer")
  /\ UNCHANGED << failedAt, seed, rng, ndraws, W, H, surface, ctx, city_surface,
                  buildings, x, blurred_city, blk, stale, fern >>

\* surface.write_to_png('.../_base_layer.png')
SaveBaseLayer ==
  /\ pc = "save_base_layer"
  /\ files' = [files EXCEPT ![BASE_LAYER] = surface]
  /\ alphas' = {}
  /\ Advance("save_base_layer")
  /\ UNCHANGED << failedAt, seed, rng, ndraws, W, H, surface, ctx, city_surface,
                  buildings, x, blurred_city, blk, stale, fern >>

\* The input and output arguments of the convert command.
BLUR_INPUT == CITY_LAYER
\* Mutant: convert writing over its input.
BlurOutputInPlace == CITY_LAYER

BLUR_OUTPUT == CITY_BLURRED

\* subprocess.run(['convert', in, '-blur', '0x8', out], check=True), the
\* command exiting with status 0
BlurStage ==
  /\ pc = "blur"
  /\ files[BLUR_INPUT] # NoFile
  /\ files' = [files EXCEPT ![BLUR_OUTPUT] = Blur(files[BLUR_INPUT])]
  /\ alphas' = {}
  /\ Advance("blur")
  /\ UNCHANGED << failedAt, seed, rng, ndraws, W, H, surface, ctx, city_surface,
                  buildings, x, blurred_city, blk, stale, fern >>

\* Mutant: check=False, the exit status ignored and the script going on.
BlurFailureIgnored ==
  /\ pc' = After("blur")
  /\ failedAt' = "blur"
  /\ UNCHANGED << log, seed, rng, ndraws, W, H, surface, ctx, city_surface, buildings,
                  x, files, blurred_city, i, j, blk, stale, fern, alphas >>

\* check=True: a non-zero exit status raises CalledProcessError.
BlurFailure == Abort("blur")

BlurFail ==
  /\ pc = "blur"
  /\ BlurFailure

\* blurred_city = cairo.ImageSurface.create_from_png('.../_city_blurred.png')
LoadBlurred ==
  /\ pc = "load_blurred"
  /\ files[CITY_BLURRED] # NoFile
  /\ blurred_city' = files[CITY_BLURRED]
  /\ alphas' = {}
  /\ Advance("load_blurred")
  /\ UNCHANGED << failedAt, seed, rng, ndraws, W, H, surface, ctx, city_surface,
                  buildings, x, files, blk, stale, fern >>

\* What a surface composited onto the main canvas contributes.
CompositeTag(src) ==
  IF src.layers = <<"blur", "skyline">> THEN "skyline_blurred"
  ELSE IF src.layers = <<"skyline">> THEN "skyline_unblurred"
  ELSE "foreign"

\* Mutant: the blurred layer painted with ctx.paint(), at full alpha.
CompositeOpaque ==
  /\ pc = "composite"
  /\ surface' = PaintWithAlpha(surface, CompositeTag(blurred_city), blurred_city, AlphaOne)
  /\ alphas' = {AlphaOne}
  /\ Advance("composite")
  /\ UNCHANGED << failedAt, seed, rng, ndraws, W, H, ctx, city_surface, buildings, x,
                  files, blurred_city, blk, stale, fern >>

\* ctx.set_source_surface(blurred_city, 0, 0); ctx.paint_with_alpha(0.85)
Composite ==
  /\ pc = "composite"
  /\ surface' = PaintWithAlpha(surface, CompositeTag(blurred_city), blurred_city, BLUR_ALPHA)
  /\ alphas' = {BLUR_ALPHA}
  /\ Advance("composite")
  /\ UNCHANGED << failedAt, seed, rng, ndraws, W, H, ctx, city_surface, buildings, x,
                  files, blurred_city, blk, stale, fern >>

HAZE_STOPS == << 5000, 3500, 2000, 0 >>

\* ctx.set_source(haze); ctx.rectangle(..); ctx.fill()
Haze ==
  /\ pc = "haze"
  /\ surface' = FillOrStroke(surface, "haze", SeqMax(HAZE_STOPS))
  /\ alphas' = SeqSet(HAZE_STOPS)
  /\ Advance("haze")
  /\ UNCHANGED << failedAt, seed, rng, ndraws, W, H, ctx, city_surface, buildings, x,
                  files, blurred_city, blk, stale, fern >>

\* ------------------------------------------------------------ 4. hills
\* (base_y, alpha, colour): the alphas
HILL_ALPHAS == << 1400, 1800, 2400, 3000 >>
HillStages == << "hill_1", "hill_2", "hill_3", "hill_4" >>
HillOf(s) == StageIndex(s) - StageIndex("hill_1") + 1

\* Mutant: the sequence's first entry sharing the cursor the hills reset.
HillStartAliased ==
  /\ pc \in SeqSet(HillStages)
  /\ j = 0
  /\ x' = 0
  /\ buildings' = [buildings EXCEPT ![1].x = 0]
  /\ j' = 1
  /\ alphas' = {}
  /\ UNCHANGED << pc, failedAt, log, rng, ndraws, surface, ctx, city_surface,
                  files, blurred_city, i, blk, env >>

\* ctx.move_to(0, base_y + 40); x = 0
HillStart ==
  /\ pc \in SeqSet(HillStages)
  /\ j = 0
  /\ x' = 0
  /\ j' = 1
  /\ alphas' = {}
  /\ UNCHANGED << pc, failedAt, log, rng, ndraws, surface, ctx, city_surface, buildings,
                  files, blurred_city, i, blk, env >>

\* while x < W + 50
HillContinues(cx, w) == cx < (w + 50) * 100

\* cy = base_y + sin(x * 0.003 + random.uniform(0, 1)) * 35 + ..; line_to; x += 3
HillSample ==
  /\ pc \in SeqSet(HillStages)
  /\ j = 1
  /\ HillContinues(x, W)
  /\ Consume(1)
  /\ x' = x + 300
  /\ alphas' = {}
  /\ UNCHANGED << pc, failedAt, log, surface, ctx, city_surface, buildings, files,
                  blurred_city, i, j, blk, env >>

\* line_to(W, H); line_to(0, H); close_path(); set_source_rgba(.., alpha); fill()
HillFill ==
  /\ pc \in SeqSet(HillStages)
  /\ j = 1
  /\ ~HillContinues(x, W)
  /\ surface' = FillOrStroke(surface, pc, HILL_ALPHAS[HillOf(pc)])
  /\ alphas' = {HILL_ALPHAS[HillOf(pc)]}
  /\ Advance(pc)
  /\ UNCHANGED << failedAt, rng, ndraws, ctx, city_surface, buildings, x, files,
                  blurred_city, blk, env >>

\* ------------------------------------------------------------ 5. vines
VineStages == << "vine_1", "vine_2", "vine_3", "vine_4" >>
VineOf(s) == StageIndex(s) - StageIndex("vine_1") + 1

\* The four draw_vine calls: y_start, y_end, thickness (1/10).
VineArgs(n, h) ==
  CASE n = 1 -> [y0 |-> 50, y1 |-> h - 50, th |-> 30]
    [] n = 2 -> [y0 |-> 200, y1 |-> h - 100, th |-> 18]
    [] n = 3 -> [y0 |-> 80, y1 |-> h - 50, th |-> 30]
    [] OTHER -> [y0 |-> 250, y1 |-> h - 100, th |-> 18]

\* len(points) after `while y < y_end: .. y += 3`
VinePoints(n, h) == RangeCount(VineArgs(n, h).y0, VineArgs(n, h).y1, 3)

\* range(0, len(points) - 4, 3), range(0, len(points) - 1, 18), range(.., 35)
VineTendrils(n, h) == RangeCount(0, VinePoints(n, h) - 4, 3)
VineLeaves(n, h) == RangeCount(0, VinePoints(n, h) - 1, 18)
VineCurls(n, h) == RangeCount(0, VinePoints(n, h) - 1, 35)

\* while y < y_end, with k points sampled so far: y = y_start + 3 * k
VineContinues(n, h, k) == VineArgs(n, h).y0 + 3 * k < VineArgs(n, h).y1

\* offset = ..; points.append((x_base + offset, y)); y += 3
VineSample ==
  /\ pc \in SeqSet(VineStages)
  /\ i = 0
  /\ VineContinues(VineOf(pc), H, j)
  /\ j' = j + 1
  /\ alphas' = {}
  /\ UNCHANGED << pc, failedAt, log, rng, ndraws, surface, ctx, city_surface, buildings,
                  x, files, blurred_city, i, blk, env >>

\* The end of the sampling loop with j = len(points), the early return, the
\* stem and the tendril strokes.
VineStems ==
  /\ pc \in SeqSet(VineStages)
  /\ i = 0
  /\ ~VineContinues(VineOf(pc), H, j)
  /\ LET n == VineOf(pc)
         th == VineArgs(n, H).th
         as == << 5500 >> \o Repeat(3500, RangeCount(0, j - 4, 3))
     IN  IF j < 2
           THEN /\ Advance(pc)
                /\ alphas' = {}
                /\ UNCHANGED << surface, ctx >>
           ELSE /\ surface' = DrawAll(surface, pc, as)
                /\ ctx' = SetLineWidth(SetLineCap(ctx, "round"), th \div 2)
                /\ alphas' = SeqSet(as)
                /\ i' = 1
                /\ j' = 0
                /\ UNCHANGED << pc, log >>
  /\ UNCHANGED << failedAt, rng, ndraws, city_surface, buildings, x, files,
                  blurred_city, blk, env >>

\* leaf_size = 14 + random.uniform(-3, 6); save(); translate(); rotate()
VineLeafEnter ==
  /\ pc \in SeqSet(VineStages)
  /\ i = 1
  /\ ~blk
  /\ j < VineLeaves(VineOf(pc), H)
  /\ Consume(1)
  /\ ctx' = Transform(Transform(Save(ctx)))
  /\ blk' = TRUE
  /\ alphas' = {}
  /\ UNCHANGED << pc, failedAt, log, surface, city_surface, buildings, x, files,
                  blurred_city, i, j, env >>

\* leaf outline; gv = random.uniform(0.85, 1.15); fill(); midrib stroke(); restore()
VineLeafLeave ==
  /\ pc \in SeqSet(VineStages)
  /\ i = 1
  /\ blk
  /\ Consume(1)
  /\ surface' = DrawAll(surface, pc, << 3500, 2000 >>)
  /\ ctx' = Restore(SetLineWidth(ctx, 5))
  /\ blk' = FALSE
  /\ j' = j + 1
  /\ alphas' = {3500, 2000}
  /\ UNCHANGED << pc, failedAt, log, city_surface, buildings, x, files, blurred_city,
                  i, env >>

\* The spiral curls: set_line_width(0.8); rgb(.., 0.25); .. stroke() each.
VineCurlsDraw ==
  /\ pc \in SeqSet(VineStages)
  /\ i = 1
  /\ ~blk
  /\ j >= VineLeaves(VineOf(pc), H)
  /\ LET as == Repeat(2500, VineCurls(VineOf(pc), H))
     IN  /\ surface' = DrawAll(surface, pc, as)
         /\ ctx' = IF as = <<>> THEN ctx ELSE SetLineWidth(ctx, 8)
         /\ alphas' = SeqSet(as)
  /\ Advance(pc)
  /\ UNCHANGED << failedAt, rng, ndraws, city_surface, buildings, x, files,
                  blurred_city, blk, env >>

\* ------------------------------------------------------------ 6. ferns
\* bx, by, fern_h, lean drawn; save(); translate(); rotate()
FernEnter ==
  /\ pc = "ferns"
  /\ ~blk
  /\ i < FERNS
  /\ fern' = [h |-> Uniform(Draw(3), 30, 80), n |-> 0, side |-> 0, len |-> 0]
  /\ Consume(4)
  /\ ctx' = Transform(Transform(Save(ctx)))
  /\ blk' = TRUE
  /\ j' = 0
  /\ alphas' = {}
  /\ UNCHANGED << pc, failedAt, log, surface, city_surface, buildings, x, files,
                  blurred_city, i, seed, W, H, stale >>

\* g = random.uniform(0.3, 0.55); set_source_rgba(.., 0.3); set_line_width(1.2);
\* the stem's move_to, curve_to, stroke()
FernStem ==
  /\ pc = "ferns"
  /\ blk
  /\ j = 0
  /\ Consume(1)
  /\ surface' = FillOrStroke(surface, "ferns", 3000)
  /\ ctx' = SetLineWidth(ctx, 12)
  /\ j' = 1
  /\ alphas' = {3000}
  /\ UNCHANGED << pc, failedAt, log, city_surface, buildings, x, files, blurred_city,
                  i, blk, env >>

\* Mutant: the frond loop bounded by the shortest fern's count.
FernFrondsFixed(h) == 30 \div 8

\* range(int(fern_h / 8))
FernFronds(h) == h \div 8

\* side = 1 if j % 2 == 0 else -1
FrondSide(n) == IF n % 2 = 0 THEN 1 ELSE -1

\* Mutant: the frond length measured from the frond above.
FrondLenFromNext(h, n) == (h - (n + 1) * 8) * 4

\* frond_len = (fern_h - j * 8) * 0.4, in 1/10
FrondLen(h, n) == (h - n * 8) * 4

\* Frond j - 1 of the current fern.
FernFrond ==
  /\ pc = "ferns"
  /\ blk
  /\ j >= 1
  /\ j <= FernFronds(fern.h)
  /\ fern' = [h |-> fern.h, n |-> j, side |-> FrondSide(j - 1),
              len |-> FrondLen(fern.h, j - 1)]
  /\ surface' = FillOrStroke(surface, "ferns", 2200)
  /\ ctx' = SetLineWidth(ctx, 6)
  /\ j' = j + 1
  /\ alphas' = {2200}
  /\ UNCHANGED << pc, failedAt, log, rng, ndraws, city_surface, buildings, x, files,
                  blurred_city, i, blk, seed, W, H, stale >>

\* ctx.restore()
FernLeave ==
  /\ pc = "ferns"
  /\ blk
  /\ j > FernFronds(fern.h)
  /\ ctx' = Restore(ctx)
  /\ blk' = FALSE
  /\ alphas' = {}
  /\ IF i + 1 = FERNS
       THEN Advance("ferns")
       ELSE /\ i' = i + 1
            /\ j' = 0
            /\ UNCHANGED << pc, log >>
  /\ UNCHANGED << failedAt, rng, ndraws, surface, city_surface, buildings, x, files,
                  blurred_city, env >>

GROUND_STOPS == << 0, 1500, 3000 >>

\* ctx.set_source(ground); ctx.rectangle(..); ctx.fill()
Ground ==
  /\ pc = "ground"
  /\ surface' = FillOrStroke(surface, "ground", SeqMax(GROUND_STOPS))
  /\ alphas' = SeqSet(GROUND_STOPS)
  /\ Advance("ground")
  /\ UNCHANGED << failedAt, rng, ndraws, ctx, city_surface, buildings, x, files,
                  blurred_city, blk, env >>

\* ------------------------------------------------------- 7. glass panels
PANELS == 5
GLASS_STOPS == << 800, 600, 700, 500 >>

\* save(); translate(px, py); rotate(rot)
PanelEnter ==
  /\ pc = "panels"
  /\ ~blk
  /\ i < PANELS
  /\ ctx' = Transform(Transform(Save(ctx)))
  /\ blk' = TRUE
  /\ alphas' = {}
  /\ UNCHANGED << pc, failedAt, log, rng, ndraws, surface, city_surface, buildings, x,
                  files, blurred_city, i, j, env >>

\* fill_preserve(), border stroke, 3 + 2 divider strokes, highlight stroke
PanelAlphas == << SeqMax(GLASS_STOPS), 1500 >> \o Repeat(1000, 5) \o << 1200 >>

\* the panel's drawing; restore()
PanelLeave ==
  /\ pc = "panels"
  /\ blk
  /\ surface' = DrawAll(surface, "panels", PanelAlphas)
  /\ ctx' = Restore(SetLineWidth(ctx, 20))
  /\ blk' = FALSE
  /\ alphas' = SeqSet(GLASS_STOPS) \cup SeqSet(PanelAlphas)
  /\ IF i + 1 = PANELS
       THEN Advance("panels")
       ELSE /\ i' = i + 1
            /\ UNCHANGED << pc, log, j >>
  /\ UNCHANGED << failedAt, rng, ndraws, city_surface, buildings, x, files,
                  blurred_city, env >>

\* --------------------------------------------------- 8. corner ornaments
ORNAMENTS == 2

\* save(); the second ornament also translate(W, 0)
OrnamentEnter ==
  /\ pc = "ornaments"
  /\ ~blk
  /\ i < ORNAMENTS
  /\ ctx' = IF i = 1 THEN Transform(Save(ctx)) ELSE Save(ctx)
  /\ blk' = TRUE
  /\ alphas' = {}
  /\ UNCHANGED << pc, failedAt, log, rng, ndraws, surface, city_surface, buildings, x,
                  files, blurred_city, i, j, env >>

\* five arcs, and for the first ornament two flourishes
OrnamentAlphas(n) ==
  IF n = 0 THEN Repeat(1200, 5) \o Repeat(1500, 2) ELSE Repeat(1000, 5)

OrnamentLeave ==
  /\ pc = "ornaments"
  /\ blk
  /\ surface' = DrawAll(surface, "ornaments", OrnamentAlphas(i))
  /\ ctx' = Restore(SetLineWidth(ctx, IF i = 0 THEN 10 ELSE 15))
  /\ blk' = FALSE
  /\ alphas' = SeqSet(OrnamentAlphas(i))
  /\ IF i + 1 = ORNAMENTS
       THEN Advance("ornaments")
       ELSE /\ i' = i + 1
            /\ UNCHANGED << pc, log, j >>
  /\ UNCHANGED << failedAt, rng, ndraws, city_surface, buildings, x, files,
                  blurred_city, env >>

\* ------------------------------------------------- 9. leaves and pollen
\* lx, ly, la, ls drawn; save(); translate(); rotate()
LeafEnter ==
  /\ pc = "leaves"
  /\ ~blk
  /\ i < LEAVES
  /\ Consume(4)
  /\ ctx' = Transform(Transform(Save(ctx)))
  /\ blk' = TRUE
  /\ alphas' = {}
  /\ UNCHANGED << pc, failedAt, log, surface, city_surface, buildings, x, files,
                  blurred_city, i, j, env >>

\* random.uniform(0.06, 0.15)
LeafAlpha(s) == Uniform(s, 600, 1500)

\* outline; g drawn; set_source_rgba(.., random.uniform(0.06, 0.15)); fill(); restore()
LeafLeave ==
  /\ pc = "leaves"
  /\ blk
  /\ surface' = FillOrStroke(surface, "leaves", LeafAlpha(Draw(2)))
  /\ alphas' = {LeafAlpha(Draw(2))}
  /\ Consume(2)
  /\ ctx' = Restore(ctx)
  /\ blk' = FALSE
  /\ IF i + 1 = LEAVES
       THEN Advance("leaves")
       ELSE /\ i' = i + 1
            /\ UNCHANGED << pc, log, j >>
  /\ UNCHANGED << failedAt, city_surface, buildings, x, files, blurred_city, env >>

\* Mutant: every other grain golden.
PollenGoldenHalf(n) == n % 2 = 0

\* if i % 3 == 0
PollenGolden(n) == n % 3 = 0

\* The draws of grain n: px, py, ps, then the colour's.
PollenDraws(n) == IF PollenGolden(n) THEN 4 ELSE 5

\* random.uniform(0.08, 0.25) (golden) / random.uniform(0.06, 0.15) (green)
PollenAlpha(n, s) == IF PollenGolden(n) THEN Uniform(s, 800, 2500) ELSE Uniform(s, 600, 1500)

Pollen ==
  /\ pc = "pollen"
  /\ i < POLLEN
  /\ surface' = FillOrStroke(surface, "pollen", PollenAlpha(i, Draw(PollenDraws(i))))
  /\ alphas' = {PollenAlpha(i, Draw(PollenDraws(i)))}
  /\ Consume(PollenDraws(i))
  /\ IF i + 1 = POLLEN
       THEN Advance("pollen")
       ELSE /\ i' = i + 1
            /\ UNCHANGED << pc, log, j >>
  /\ UNCHANGED << failedAt, ctx, city_surface, buildings, x, files, blurred_city, blk,
                  env >>

\* ------------------------------------------------ 10. frame and grain
Frame ==
  /\ pc = "frame"
  /\ surface' = DrawAll(surface, "frame", << 800, 600 >>)
  /\ ctx' = SetLineWidth(ctx, 10)
  /\ alphas' = {800, 600}
  /\ Advance("frame")
  /\ UNCHANGED << failedAt, rng, ndraws, city_surface, buildings, x, files,
                  blurred_city, blk, env >>

\* random.uniform(0.01, 0.025)
GrainAlpha(s) == Uniform(s, 100, 250)

\* tx, ty drawn; set_source_rgba(.., alpha drawn); arc(.., radius drawn ..); fill()
Grain ==
  /\ pc = "grain"
  /\ i < GRAIN
  /\ surface' = FillOrStroke(surface, "grain", GrainAlpha(Draw(3)))
  /\ alphas' = {GrainAlpha(Draw(3))}
  /\ Consume(4)
  /\ IF i + 1 = GRAIN
       THEN Advance("grain")
       ELSE /\ i' = i + 1
            /\ UNCHANGED << pc, log, j >>
  /\ UNCHANGED << failedAt, ctx, city_surface, buildings, x, files, blurred_city, blk,
                  env >>

\* --------------------------------------------------------------- export
\* surface.write_to_png('.../solarpunk_bg.png'); print(..)
Export ==
  /\ pc = "export"
  /\ files' = [files EXCEPT ![FINAL_PNG] = surface]
  /\ alphas' = {}
  /\ Advance("export")
  /\ UNCHANGED << failedAt, rng, ndraws, surface, ctx, city_surface, buildings, x,
                  blurred_city, blk, env >>

\* A statement of any stage but the blur raises.
Fail ==
  /\ pc \in Stages \ {"blur"}
  /\ Abort(pc)

Next ==
  \/ Sky
  \/ SunGlow
  \/ SunRayEnter
  \/ SunRayLeave
  \/ SunCore
  \/ CitySurface
  \/ GenBuilding
  \/ GenBuildingsDone
  \/ SkylineShape
  \/ SkylineWindow
  \/ SkylineDone
  \/ SaveCityLayer
  \/ SaveBaseLayer
  \/ BlurStage
  \/ BlurFail
  \/ LoadBlurred
  \/ Composite
  \/ Haze
  \/ HillStart
  \/ HillSample
  \/ HillFill
  \/ VineSample
  \/ VineStems
  \/ VineLeafEnter
  \/ VineLeafLeave
  \/ VineCurlsDraw
  \/ FernEnter
  \/ FernStem
  \/ FernFrond
  \/ FernLeave
  \/ Ground
  \/ PanelEnter
  \/ PanelLeave
  \/ OrnamentEnter
  \/ OrnamentLeave
  \/ LeafEnter
  \/ LeafLeave
  \/ Pollen
  \/ Frame
  \/ Grain
  \/ Export
  \/ Fail

Spec == Init /\ [][Next]_vars

\* ------------------------------------------- the skyline generator alone
\* The generation loop as a function of the canvas width and of the values
\* the random source returns: each draw ranges over the ends of its interval.
Ends(r) == {r[1], r[2]}

SkyInit ==
  \E w \in {0, MaxSkyW} :
    /\ pc = "gen_buildings"
    /\ failedAt = "none"
    /\ log = SubSeq(Pipeline, 1, StageIndex("gen_buildings") - 1)
    /\ seed = SEED
    /\ rng = RandomSeed(SEED)
    /\ ndraws = RAYS
    /\ W = w
    /\ H = DEFAULT_H
    /\ surface = NewSurface
    /\ ctx = NewContext
    /\ city_surface = NewSurface
    /\ buildings = <<>>
    /\ x = -2000
    /\ files = InitialFiles(FALSE)
    /\ blurred_city = NoSurface
    /\ i = 0
    /\ j = 0
    /\ blk = FALSE
    /\ stale = FALSE
    /\ fern = NoFern
    /\ alphas = {}

GenBuildingAny ==
  /\ pc = "gen_buildings"
  /\ GenContinues(x, W)
  /\ \E t \in SeqSet(BTYPES), f \in Ends(SPACING) :
       \E bw \in Ends(WidthRange(t)), bh \in Ends(HeightRange(t)) :
         LET r == GenBuildingStep(buildings, x, t, bw, bh, f)
         IN  /\ buildings' = r.buildings
             /\ x' = r.x
  /\ ndraws' = ndraws + 4
  /\ alphas' = {}
  /\ UNCHANGED << pc, failedAt, log, rng, surface, ctx, city_surface, files,
                  blurred_city, i, j, blk, env >>

NextSky ==
  \/ GenBuildingAny
  \/ GenBuildingsDone

SpecSkyline == SkyInit /\ [][NextSky]_vars

\* --------------------------------------------- the ferns at every height
\* The run with the height of the first ferns ranging over the whole interval
\* it is drawn from, instead of the value the seeded generator returns.
\* fern_h = random.uniform(30, 80)
FERN_HEIGHT == << 30, 80 >>

FernEnterAny ==
  /\ pc = "ferns"
  /\ ~blk
  /\ i < FERNS
  /\ i < MaxFernAny
  /\ \E fh \in FERN_HEIGHT[1] .. FERN_HEIGHT[2] :
       fern' = [h |-> fh, n |-> 0, side |-> 0, len |-> 0]
  /\ Consume(4)
  /\ ctx' = Transform(Transform(Save(ctx)))
  /\ blk' = TRUE
  /\ j' = 0
  /\ alphas' = {}
  /\ UNCHANGED << pc, failedAt, log, surface, city_surface, buildings, x, files,
                  blurred_city, i, seed, W, H, stale >>

NextFern ==
  \/ Sky
  \/ SunGlow
  \/ SunRayEnter
  \/ SunRayLeave
  \/ SunCore
  \/ CitySurface
  \/ GenBuilding
  \/ GenBuildingsDone
  \/ SkylineShape
  \/ SkylineWindow
  \/ SkylineDone
  \/ SaveCityLayer
  \/ SaveBaseLayer
  \/ BlurStage
  \/ BlurFail
  \/ LoadBlurred
  \/ Composite
  \/ Haze
  \/ HillStart
  \/ HillSample
  \/ HillFill
  \/ VineSample
  \/ VineStems
  \/ VineLeafEnter
  \/ VineLeafLeave
  \/ VineCurlsDraw
  \/ FernEnterAny
  \/ (i >= MaxFernAny /\ FernEnter)
  \/ FernStem
  \/ FernFrond
  \/ FernLeave
  \/ Ground
  \/ PanelEnter
  \/ PanelLeave
  \/ OrnamentEnter
  \/ OrnamentLeave
  \/ LeafEnter
  \/ LeafLeave
  \/ Pollen
  \/ Frame
  \/ Grain
  \/ Export
  \/ Fail

SpecFern == Init /\ [][NextFern]_vars

\* ------------------------------------------- the run that does not fail
\* The script with the external convert exiting with status 0 and no statement
\* raising.  The interpreter executes the next statement as long as there is
\* one, which is weak fairness of the next-state relation.
NextLive ==
  \/ Sky
  \/ SunGlow
  \/ SunRayEnter
  \/ SunRayLeave
  \/ SunCore
  \/ CitySurface
  \/ GenBuilding
  \/ GenBuildingsDone
  \/ SkylineShape
  \/ SkylineWindow
  \/ SkylineDone
  \/ SaveCityLayer
  \/ SaveBaseLayer
  \/ BlurStage
  \/ LoadBlurred
  \/ Composite
  \/ Haze
  \/ HillStart
  \/ HillSample
  \/ HillFill
  \/ VineSample
  \/ VineStems
  \/ VineLeafEnter
  \/ VineLeafLeave
  \/ VineCurlsDraw
  \/ FernEnter
  \/ FernStem
  \/ FernFrond
  \/ FernLeave
  \/ Ground
  \/ PanelEnter
  \/ PanelLeave
  \/ OrnamentEnter
  \/ OrnamentLeave
  \/ LeafEnter
  \/ LeafLeave
  \/ Pollen
  \/ Frame
  \/ Grain
  \/ Export

SpecLive == Init /\ [][NextLive]_vars /\ WF_vars(NextLive)

\* ================================================================ claims
Layers(c) == SeqSet(c.layers)
Completed(s) == s \in SeqSet(log)
Last(q) == q[Len(q)]

\* ---------------------------------------------------------------- C1
\* The stages the claim lists, in the order it lists them.
ClaimedOrder ==
  << "sky", "sun_glow", "sun_rays", "sun_core", "skyline", "blur", "composite", "haze",
     "hill_1", "hill_2", "hill_3", "hill_4", "vine_1", "vine_2", "vine_3", "vine_4",
     "ferns", "ground", "panels", "ornaments", "leaves", "pollen", "frame", "grain",
     "export" >>

IsClaimedStage(s) == s \in SeqSet(ClaimedOrder)

\* C1: the completed stages are always an initial part of the claimed order, each
\* once; the stage in progress is the one right after the last completed stage (it
\* started only when its predecessor had finished); and a run that has exported
\* has completed exactly the claimed list, in that order.
C1_FixedStageOrder ==
  LET done == SelectSeq(log, IsClaimedStage)
  IN  /\ Len(done) <= Len(ClaimedOrder)
      /\ done = SubSeq(ClaimedOrder, 1, Len(done))
      /\ pc \in SeqSet(ClaimedOrder) => pc = ClaimedOrder[Len(done) + 1]
      /\ Completed("export") => done = ClaimedOrder

C1_Witness ==
  /\ pc = "done"
  /\ Completed("export")
  /\ SelectSeq(log, IsClaimedStage) = ClaimedOrder

\* ---------------------------------------------------------------- C2
\* The statements between the end of the sun stage and the composite.
SkylinePhase ==
  { "city_surface", "gen_buildings", "skyline", "save_city_layer", "save_base_layer",
    "blur", "load_blurred" }

\* C2: no step taken between the end of the sun stage and the composite changes
\* the main canvas; the main canvas never holds skyline content drawn on it
\* directly or composited unblurred; and once the composite has run the skyline
\* is on the main canvas as the blurred layer.
C2_SkylineOffCanvas ==
  /\ [][(pc \in SkylinePhase) => (surface' = surface)]_vars
  /\ [](/\ "skyline" \notin Layers(surface)
        /\ "skyline_unblurred" \notin Layers(surface)
        /\ "foreign" \notin Layers(surface)
        /\ Completed("composite") => "skyline_blurred" \in Layers(surface))

C2_Witness ==
  /\ pc = "haze"
  /\ city_surface.nops > 0
  /\ Layers(city_surface) = {"skyline"}
  /\ "skyline_blurred" \in Layers(surface)
  /\ files[BASE_LAYER].layers = << "sky", "sun_glow", "sun_rays", "sun_core" >>

Depth == Len(ctx.stack)

\* C6: on a run that has not failed the saved-state stack is never deeper than
\* 1; every step that ends a stage (and so starts the next, or ends the run)
\* leaves depth 0 and the identity transform; and every drawing step taken
\* outside a save/restore block draws under the identity transform.
C6_SaveRestoreBalanced ==
  /\ [](pc # "aborted" => Depth <= 1)
  /\ [](pc = "done" => Depth = 0 /\ ctx.xform = "identity")
  /\ [][pc' # pc /\ pc' # "aborted" =>
          /\ Len(ctx'.stack) = 0
          /\ ctx'.xform = "identity"]_vars
  /\ [][surface' # surface /\ Depth = 0 /\ Len(ctx'.stack) = 0 =>
          /\ ctx.xform = "identity"
          /\ ctx'.xform = "identity"]_vars

C6_Witness ==
  /\ pc = "export"
  /\ Completed("leaves")
  /\ Completed("ferns")
  /\ Depth = 0
  /\ ctx.xform = "identity"

C8_OpaqueAfterSky ==
  /\ Completed("sky") => surface.miss = "opaque" /\ surface.hit = "opaque"
  /\ pc = "done" => files[FINAL_PNG].miss = "opaque" /\ files[FINAL_PNG].hit = "opaque"

C8_Witness ==
  /\ pc = "done"
  /\ files[FINAL_PNG].miss = "opaque"
  /\ "skyline_blurred" \in Layers(files[FINAL_PNG])
  /\ "grain" \in Layers(files[FINAL_PNG])

\* ---------------------------------------------------------------- C9
\* C9: every alpha value a statement passes to a fill, stroke, paint, gradient
\* stop or paint-with-alpha lies in [0, 1].
C9_AlphaInUnitInterval ==
  \A a \in alphas : 0 <= a /\ a <= AlphaOne

\* The last sun-glow iteration: alpha = 0.086, stops 0.215 and 0.129.
C9_Witness ==
  /\ pc = "sun_rays"
  /\ i = 0
  /\ ~blk
  /\ alphas = {2150, 1290, 0}

\* ---------------------------------------------------------------- C10
\* The largest building width times 1.1, in 1/100 pixel.
MaxGap == 110 * 110

\* What the claim and its amendment share: the sequence is non-empty once the
\* loop has ended, starts at x = -20, has strictly increasing x, and no gap
\* between a building's right edge and the next building's left edge exceeds
\* MaxGap.
SkylineCommon ==
  /\ pc # "gen_buildings" => Len(buildings) > 0
  /\ Len(buildings) > 0 => buildings[1].x = -2000
  /\ \A n \in 1 .. Len(buildings) - 1 :
       /\ buildings[n].x < buildings[n + 1].x
       /\ buildings[n + 1].x - (buildings[n].x + 100 * buildings[n].w) <= MaxGap

\* C10 as claimed: the last building's span reaches the right bound W + 20.
C10_SpanReachesRightBound ==
  /\ SkylineCommon
  /\ pc # "gen_buildings" =>
       Last(buildings).x + 100 * Last(buildings).w >= (W + 20) * 100

\* C10 as amended: the last building's right edge is at most a tenth of its own
\* width short of W + 20 (x + 1.1 * width >= W + 20).
C10_SpanNearRightBound ==
  /\ SkylineCommon
  /\ pc # "gen_buildings" =>
       Last(buildings).x + 110 * Last(buildings).w >= (W + 20) * 100

\* A finished skyline of several buildings whose last span stops short of W + 20.
C10_Witness ==
  /\ pc = "skyline"
  /\ Len(buildings) >= 2
  /\ Last(buildings).x + 100 * Last(buildings).w < (W + 20) * 100
  /\ Last(buildings).x + 110 * Last(buildings).w >= (W + 20) * 100

\* ---------------------------------------------------------------- C11
\* The variants and the height and width ranges the claim states.
ClaimedVariants == {"tower", "dome", "spire", "antenna", "block", "megablock"}

ClaimedHeight(t) ==
  CASE t = "tower" -> << 80, 240 >>
    [] t = "dome" -> << 50, 120 >>
    [] t = "spire" -> << 150, 320 >>
    [] t = "antenna" -> << 180, 350 >>
    [] t = "megablock" -> << 60, 160 >>
    [] t = "block" -> << 40, 100 >>

ClaimedWidth(t) == IF t = "megablock" THEN << 60, 110 >> ELSE << 18, 55 >>

InClaimedRange(b) ==
  /\ b.t \in ClaimedVariants
  /\ ClaimedHeight(b.t)[1] <= b.h /\ b.h <= ClaimedHeight(b.t)[2]
  /\ ClaimedWidth(b.t)[1] <= b.w /\ b.w <= ClaimedWidth(b.t)[2]

\* C11: every Building in the sequence has one of the six variants, and its
\* height and width lie in the range the claim gives for that variant.
C11_BuildingInVariantRange ==
  \A n \in 1 .. Len(buildings) : InClaimedRange(buildings[n])

\* A finished skyline holding a megablock and a building of another variant.
C11_Witness ==
  /\ pc = "skyline"
  /\ \E n \in 1 .. Len(buildings) : buildings[n].t = "megablock"
  /\ \E n \in 1 .. Len(buildings) : buildings[n].t = "antenna"
  /\ \E n \in 1 .. Len(buildings) : buildings[n].t = "block"

\* ---------------------------------------------------------------- C12
\* C12: while the sequence is being generated it only grows at its end and
\* nothing has been rendered yet; once generation is complete no step changes
\* it, neither its length nor any entry, the steps that render it and the hill
\* steps that reuse the cursor x included.
C12_BuildingsGeneratedOnce ==
  /\ [][pc = "gen_buildings" =>
          /\ Len(buildings') >= Len(buildings)
          /\ SubSeq(buildings', 1, Len(buildings)) = buildings]_vars
  /\ [][Completed("gen_buildings") => buildings' = buildings]_vars
  /\ [](~Completed("gen_buildings") =>
          /\ city_surface.nops = 0
          /\ "skyline" \notin Layers(city_surface))
  /\ [](Completed("gen_buildings") => Len(buildings) > 0)

\* A finished run: the skyline was rendered, the hills moved the cursor, and
\* the sequence still starts with the entry generated at x = -20.
C12_Witness ==
  /\ pc = "done"
  /\ city_surface.nops >= Len(buildings)
  /\ Len(buildings) > 1
  /\ buildings[1].x = -2000
  /\ x > Last(buildings).x
  /\ Completed("hill_4")

\* ---------------------------------------------------------------- C13
IsBlurredSkyline(tag) == tag = "skyline_blurred"

\* How many times the blurred skyline has been composited onto canvas c.
BlurredCount(c) == Len(SelectSeq(c.layers, IsBlurredSkyline))

\* C13: the buffer loaded after the blur is the blur of this run's intermediate
\* canvas and is not that canvas; the composite step runs after the blur and
\* before the haze, adds the blurred skyline to the main canvas in one paint at
\* global alpha 0.85, and no other step adds it, so it is on the main canvas
\* once from the composite on and not at all before; the unblurred canvas is
\* never on the main canvas.
C13_BlurredCompositedOnce ==
  /\ [](Completed("load_blurred") =>
          /\ blurred_city = Blur(city_surface)
          /\ blurred_city # city_surface
          /\ blurred_city # StaleFile(CITY_BLURRED))
  /\ [][pc = "composite" /\ pc' # "aborted" =>
          /\ Completed("blur")
          /\ ~Completed("haze")
          /\ pc' = "haze"
          /\ surface'.nops = surface.nops + 1
          /\ alphas' = {8500}
          /\ surface'.hit = Over(ScaleClass(blurred_city.hit, 8500), surface.hit)
          /\ BlurredCount(surface') = BlurredCount(surface) + 1]_vars
  /\ [][pc # "composite" => BlurredCount(surface') = BlurredCount(surface)]_vars
  /\ [](BlurredCount(surface) = IF Completed("composite") THEN 1 ELSE 0)
  /\ []("skyline_unblurred" \notin Layers(surface) /\ "skyline" \notin Layers(surface))

\* The composite has just run, over files an earlier run had left on disk.
C13_Witness ==
  /\ pc = "haze"
  /\ stale
  /\ blurred_city = Blur(city_surface)
  /\ city_surface.nops > 0
  /\ BlurredCount(surface) = 1
  /\ alphas = {8500}

\* ---------------------------------------------------------------- C14
\* The stages of the main context that stroke a path, and those among them
\* that call set_line_cap themselves.
StrokingStages ==
  { "sun_rays", "sun_core", "vine_1", "vine_2", "vine_3", "vine_4",
    "ferns", "panels", "ornaments", "frame" }

CapSettingStages == { "vine_1", "vine_2", "vine_3", "vine_4" }

\* C14 as claimed: a stage that strokes without setting the line cap itself
\* strokes with the cap a fresh context has, not with one an earlier stage
\* left behind; and outside a save/restore block it draws under the identity
\* transform.
C14_NoInheritedSettings ==
  pc \in StrokingStages \ CapSettingStages =>
    /\ ctx.cap = NewContext.cap
    /\ ~blk => ctx.xform = NewContext.xform

\* The fern stage about to stroke its first stem with the round cap the vine
\* stage set.
C14_InheritedCapReached ==
  /\ pc = "ferns"
  /\ blk
  /\ j = 0
  /\ i = 0
  /\ ctx.cap = "round"
  /\ Completed("vine_4")

\* ---------------------------------------------------------------- C15
\* The stages the claim names as consuming the random source, in its order.
ClaimedDrawOrder ==
  << "sun_rays", "gen_buildings", "skyline", "hill_1", "hill_2", "hill_3", "hill_4",
     "vine_1", "vine_2", "vine_3", "vine_4", "ferns", "leaves", "pollen", "grain" >>

\* The place of stage s in the claimed draw order.
DrawRank(s) == CHOOSE n \in 1 .. Len(ClaimedDrawOrder) : ClaimedDrawOrder[n] = s

\* C15: a draw is made only by a stage of the claimed list, and a stage never
\* follows one that comes later in that list, so the draws are made in the
\* claimed order; the first 24 draws are the sun rays', one per ray; while the
\* Building sequence is generated exactly four draws have been made per
\* Building, and each new Building takes its variant from the first of its
\* draws, its width from the second, its height from the third and the
\* spacing factor that moves the cursor from the fourth; the first draw made
\* while rendering the skyline comes after all of them.
C15_DrawOrder ==
  /\ [][ndraws' # ndraws =>
          /\ ndraws' > ndraws
          /\ pc \in SeqSet(ClaimedDrawOrder)]_vars
  /\ [][(pc \in SeqSet(ClaimedDrawOrder) /\ pc' \in SeqSet(ClaimedDrawOrder)) =>
          (DrawRank(pc) <= DrawRank(pc'))]_vars
  /\ [](pc \in {"sky", "sun_glow"} => ndraws = 0)
  /\ [](pc = "sun_rays" => ndraws = i + (IF blk THEN 1 ELSE 0))
  /\ [](pc \in {"sun_core", "city_surface"} => ndraws = 24)
  /\ [](pc = "gen_buildings" => ndraws = 24 + 4 * Len(buildings))
  /\ [](Completed("gen_buildings") => ndraws >= 24 + 4 * Len(buildings))
  /\ [][pc = "gen_buildings" /\ Len(buildings') = Len(buildings) + 1 =>
          LET b == Last(buildings')
          IN  /\ b.t = Choice(RngAt(rng, 1), BTYPES)
              /\ b.w = Uniform(RngAt(rng, 2), ClaimedWidth(b.t)[1], ClaimedWidth(b.t)[2])
              /\ b.h = Uniform(RngAt(rng, 3), ClaimedHeight(b.t)[1], ClaimedHeight(b.t)[2])
              /\ x' = x + b.w * Uniform(RngAt(rng, 4), 50, 110)
              /\ rng' = RngAt(rng, 4)]_vars

\* Rendering is about to start: 24 ray draws and four per Building were made.
C15_Witness ==
  /\ pc = "skyline"
  /\ i = 0
  /\ j = 0
  /\ Len(buildings) > 1
  /\ ndraws = 24 + 4 * Len(buildings)

\* ---------------------------------------------------------------- C16
\* C16 as claimed: within a hill a draw is made only before the first sample
\* is taken (the cursor still at 0), one draw, and every later sample of that
\* hill reuses it.
C16_OneDrawPerHill ==
  [][(pc \in SeqSet(HillStages) /\ ndraws' # ndraws) =>
       (x = 0 /\ ndraws' = ndraws + 1)]_vars

\* The first hill sampled to its end: 617 samples, the cursor at 1851.
C16_HillSampled ==
  /\ pc = "hill_1"
  /\ j = 1
  /\ W = 1800
  /\ x = 617 * 300
  /\ ~HillContinues(x, W)

\* ---------------------------------------------------------------- C17
\* The last fern entered has been drawn to its end: fern.n is the number of
\* frond strokes it received.
FernFinished == fern # NoFern /\ ~blk

\* C17 as claimed: the number of frond strokes of a finished fern is the one a
\* fern of any other height of the sampled range 30 .. 80 receives.
C17_SameFrondCount ==
  FernFinished => \A h \in 30 .. 80 : fern.n = FernFronds(h)

\* C17 as amended: the stage draws 60 ferns, one after the other, and ends
\* with the 60th; a fern of height fern_h receives int(fern_h / 8) frond
\* strokes, between 3 and 10 according to the height drawn for it.
C17_FrondCountFollowsHeight ==
  /\ [](pc = "ferns" => i \in 0 .. 59)
  /\ [][(pc # "ferns" /\ pc' = "ferns") => (i' = 0 /\ ~blk')]_vars
  /\ [][(pc = "ferns" /\ pc' = "ferns" /\ i' # i) => (i' = i + 1 /\ blk /\ ~blk')]_vars
  /\ [][(pc = "ferns" /\ pc' \notin {"ferns", "aborted"}) => (i = 59 /\ blk /\ ~blk')]_vars
  /\ [](FernFinished =>
          /\ 30 <= fern.h /\ fern.h <= 80
          /\ fern.n = fern.h \div 8
          /\ 3 <= fern.n /\ fern.n <= 10)

\* The stage has just ended with a fern of more fronds than the shortest has.
C17_Witness ==
  /\ pc = "ground"
  /\ FernFinished
  /\ fern.n > 30 \div 8
  /\ fern.n = fern.h \div 8

\* ---------------------------------------------------------------- C18
\* C18: every frond stroke of a fern has a positive length and a side, left or
\* right; a frond after the first is on the other side than the frond below
\* it and strictly shorter.
C18_FrondsAlternateAndShrink ==
  [][(pc = "ferns" /\ fern'.h = fern.h /\ fern'.n = fern.n + 1) =>
       (/\ fern'.len > 0
        /\ fern'.side \in {1, -1}
        /\ fern.n >= 1 => /\ fern'.side = -fern.side
                          /\ fern'.len < fern.len)]_vars

\* The tip frond of the tallest fern: the tenth, on the left, 3.2 long.
C18_Witness ==
  /\ pc = "ferns"
  /\ blk
  /\ fern.h = 80
  /\ fern.n = 10
  /\ fern.side = -1
  /\ fern.len = 32

\* ---------------------------------------------------------------- C19
\* The grains of the pollen pass that are golden; the others are green.
GoldenGrains == {n \in 0 .. 119 : PollenGolden(n)}

\* C19: the leaves pass draws 35 leaves and is followed at once by the pollen
\* pass, which draws 120 grains, one per step; 40 of the grains are golden
\* and 80 green; the step that draws a golden grain consumes four draws and
\* the step that draws a green grain five.
C19_ParticlePasses ==
  /\ [](pc = "leaves" => i \in 0 .. 34)
  /\ [](pc = "pollen" => i \in 0 .. 119 /\ Completed("leaves"))
  /\ [][(pc = "leaves" /\ pc' \notin {"leaves", "aborted"}) =>
          (i = 34 /\ pc' = "pollen" /\ i' = 0)]_vars
  /\ [][(pc = "pollen" /\ pc' \notin {"pollen", "aborted"}) => (i = 119)]_vars
  /\ [][(pc = "pollen" /\ pc' # "aborted") =>
          (/\ pc' = "pollen" => i' = i + 1
           /\ surface'.nops = surface.nops + 1
           /\ ndraws' - ndraws = (IF i \in GoldenGrains THEN 4 ELSE 5))]_vars
  /\ [](/\ Cardinality(GoldenGrains) = 40
        /\ Cardinality((0 .. 119) \ GoldenGrains) = 80)

\* Both passes are complete: the last grain, a green one, has been drawn.
C19_Witness ==
  /\ pc = "frame"
  /\ Completed("leaves")
  /\ Completed("pollen")
  /\ alphas # {}
  /\ 119 \notin GoldenGrains

\* ---------------------------------------------------------------- C20
\* C20: the run reaches the end of the script with the final image exported;
\* a step of the skyline loop moves its cursor forward by at least 9 while it
\* is below W + 20; a step of a hill loop moves its cursor forward by 3 while
\* it is below W + 50; a step of a vine loop adds one point, 3 further down,
\* while y is above y_end, and the loop ends with the number of points that
\* fit; every other loop index stays within its fixed count.
C20_TerminatesAtExport ==
  /\ <>(pc = "done" /\ Completed("export") /\ files[FINAL_PNG] = surface)
  /\ [][(pc = "gen_buildings" /\ x' # x) =>
          (x' >= x + 900 /\ x < (W + 20) * 100)]_vars
  /\ [][(pc \in SeqSet(HillStages) /\ j = 1 /\ x' # x) =>
          (x' = x + 300 /\ x < (W + 50) * 100)]_vars
  /\ [][(pc \in SeqSet(VineStages) /\ i = 0 /\ i' = 0 /\ j' # j /\ pc' = pc) =>
          (j' = j + 1 /\ VineArgs(VineOf(pc), H).y0 + 3 * j < VineArgs(VineOf(pc), H).y1)]_vars
  /\ [][(pc \in SeqSet(VineStages) /\ i = 0 /\ i' = 1) =>
          (j = VinePoints(VineOf(pc), H))]_vars
  /\ [](/\ pc = "sun_glow" => i < 8
        /\ pc = "sun_rays" => i < 24
        /\ pc = "skyline" => i <= Len(buildings)
        /\ pc = "ferns" => i < 60 /\ j <= 11
        /\ pc = "panels" => i < 5
        /\ pc = "ornaments" => i < 2
        /\ pc = "leaves" => i < 35
        /\ pc = "pollen" => i < 120
        /\ pc = "grain" => i < 3000)

\* The run has ended: every stage is complete and the image is on disk.
C20_Witness ==
  /\ pc = "done"
  /\ log = Pipeline
  /\ files[FINAL_PNG] = surface
  /\ x >= (W + 50) * 100
  /\ Len(buildings) > 1

====
